---- MODULE Spec2Model ----
(***************************************************************************)
(* kira-art: the live feed controller (HeliusLiveFeed, src/helius.js) as a  *)
(* state machine.  The object's fields are variables; every handler        *)
(* (connect, the socket callbacks, the simulated-loop tick, disconnect,    *)
(* getStats) is one action.  The browser's WebSocket and timer queue are   *)
(* the environment: they decide when a socket opens, fails, closes or      *)
(* delivers a message, and when a pending timer fires.                     *)
(*                                                                         *)
(* Units: reconnect delays are counted in eighths of a millisecond, so     *)
(* that every value of the sequence 2000 * 1.5^k below the cap is an       *)
(* integer; magnitudes are counted in millionths; Math.random() is a       *)
(* choice among per-mille samples of [0,1).                                *)
(***************************************************************************)
EXTENDS Integers, Sequences, FiniteSets, TLC

\* ---------------------------------------------------------------- bounds
MaxConnectCalls == 2   \* connect() calls made by the consumer
MaxEvents == 2         \* cap on eventCount
MaxTime == 1           \* cap on the clock (Date.now())
MaxLogLines == 2       \* longest logs array of a feed message
MaxSceneCalls == 3     \* walletToParams calls of one run
MaxUpdates == 1        \* update() calls of one run
MaxLiveEvents == 1     \* handleLiveEvent() calls of one run
MaxTrailUpdates == 20  \* update() calls of one run that fills the trails
MaxResets == 1         \* _initParticles() and resize() calls of one run

\* ------------------------------------------------------- program constants
TicksPerMs == 8
InitialDelay == 2000 * TicksPerMs
MaxDelay == 30000 * TicksPerMs
SigLen == 8

Min(a, b) == IF a < b THEN a ELSE b

\* EventType, src/helius.js:15-21
EventType ==
  [TRANSACTION |-> "tx", WHALE |-> "whale", MEV |-> "mev", MINT |-> "mint", BURN |-> "burn"]

\* Values of the constructor's apiKey argument: missing, the literal 'demo', a key.
ApiKeys == {"", "demo", "key"}

\* Math.random(), in thousandths; the samples sit on both sides of every
\* threshold the code compares a random number with.
RandomSamples == {0, 4, 5, 24, 25, 39, 40, 49, 50, 999}
\* the two ends of [0,1), for the draws that only scale a magnitude
MagnitudeSamples == {0, 999}

Sockets == 1..MaxConnectCalls

\* readyState of a WebSocket object, refined by what the browser will
\* dispatch next:
\*   none        no object in this slot
\*   connecting  CONNECTING
\*   open        OPEN
\*   failing     CLOSING, close() was called before the connection opened:
\*               the connection is failed, error and close will be dispatched
\*   closing     CLOSING, close() was called on an open socket
\*   errored     CLOSED, the error event has been dispatched and the close
\*               event follows in the same task
\*   closed      CLOSED, the close event has been dispatched
SockStates == {"none", "connecting", "open", "failing", "closing", "errored", "closed"}

\* ------------------------------------------------------------ feed messages
\* no invocation of onEvent yet
NoEvent == [type |-> "none", magnitude |-> 0, sig |-> <<>>, timestamp |-> 0]
\* A string is a sequence of pieces; String.prototype.includes is the test
\* for a contiguous run of pieces.
Includes(l, pat) ==
  \E i \in 0..(Len(l) - Len(pat)) : SubSeq(l, i + 1, i + Len(pat)) = pat

\* logs.some(l => l.includes(pat))
Some(logs, pat) == \E k \in 1..Len(logs) : Includes(logs[k], pat)

\* The substrings _handleMessage looks for, src/helius.js:93-111
PatTransfer == <<"Instruction", ": ", "Transfer">>
PatLarge == <<"1000000000">>
PatSwap == <<"Program log", ": ", "Instruction", ": ", "Swap">>
PatArb == <<"Arb", "Instruction">>
PatMintTo == <<"Instruction", ": ", "Mint", "To">>
PatInitMint == <<"Initialize", "Mint">>
PatBurn == <<"Instruction", ": ", "Burn">>

\* Log lines a logsSubscribe notification can carry
LogLines ==
  { <<"Program", " invoke">>,
    <<"Program log", ": ", "Instruction", ": ", "Transfer">>,
    <<"Program log", ": ", "Instruction", ": ", "Transfer", "Checked">>,
    <<"Transfer", " ", "1000000000", " lamports">>,
    <<"Program log", ": ", "Instruction", ": ", "Swap">>,
    <<"Instruction", ": ", "Swap">>,
    <<"Program log", ": ", "Arb", "Instruction", ": ", "Transfer", " ", "1000000000">>,
    <<"Program log", ": ", "Instruction", ": ", "Mint", "To">>,
    <<"Program log", ": ", "Instruction", ": ", "Initialize", "Mint">>,
    <<"Program log", ": ", "Instruction", ": ", "Burn">> }

LogArrays == UNION { [1..n -> LogLines] : n \in 0..MaxLogLines }

\* A JSON value of a field: absent (undefined or null), a value of the
\* wrong type (a number), or a value of the expected type.
Absent == [t |-> "undef", v |-> <<>>]
Number == [t |-> "num", v |-> <<>>]
Value(v) == [t |-> "ok", v |-> v]

Signatures ==
  { Value(<<>>), Value(<<"5", "x">>),
    Value(<<"4", "k", "Q", "z", "9", "b", "T", "m", "2", "W">>) }

\* msg.data: text that JSON.parse rejects, or JSON in which the first
\* `depth` links of the chain params.result.value are present and truthy.
Garbage == [kind |-> "garbage", depth |-> 0, logs |-> Absent, sig |-> Absent]
Json(d, l, g) == [kind |-> "json", depth |-> d, logs |-> l, sig |-> g]
NoMsg == [kind |-> "none", depth |-> 0, logs |-> Absent, sig |-> Absent]

Malformed == {Garbage} \cup { Json(d, Absent, Absent) : d \in 0..2 }

Messages ==
  Malformed \cup
  { Json(3, l, g) : l \in {Absent, Number} \cup { Value(a) : a \in LogArrays },
                    g \in {Absent, Number} \cup Signatures }

\* The messages of the connection state machine's runs
FeedMessages ==
  Malformed \cup
  { Json(3, Absent, Absent),
    Json(3, Number, Value(<<"5", "x">>)),
    Json(3, Value(<<>>), Number),
    Json(3, Value(<< <<"Program log", ": ", "Instruction", ": ", "Mint", "To">>,
                     <<"Program log", ": ", "Instruction", ": ", "Burn">> >>),
         Value(<<"4", "k", "Q", "z", "9", "b", "T", "m", "2", "W">>)) }

\* sig.slice(0, 8)
Slice8(str) == SubSeq(str, 1, Min(SigLen, Len(str)))

\* The type and magnitude that _handleMessage derives from the log lines,
\* src/helius.js:89-114; r1, r2, r3 are the values Math.random() returns
\* at lines 91, 97 and 103.
IsWhale(logs) == Some(logs, PatTransfer) /\ Some(logs, PatLarge)
IsMev(logs) == \E k \in 1..Len(logs) : Includes(logs[k], PatSwap) \/ Includes(logs[k], PatArb)
IsMint(logs) == \E k \in 1..Len(logs) : Includes(logs[k], PatMintTo) \/ Includes(logs[k], PatInitMint)
IsBurn(logs) == Some(logs, PatBurn)

\* the rules of lines 106 and 111 in the opposite order: mint overrides burn
ClassifyMintLast(logs, r1, r2, r3) ==
  LET c0 == [type |-> EventType.TRANSACTION, magnitude |-> 300000 + r1 * 400]
      c1 == IF IsWhale(logs)
              THEN [type |-> EventType.WHALE, magnitude |-> 800000 + r2 * 200] ELSE c0
      c2 == IF IsMev(logs)
              THEN [type |-> EventType.MEV, magnitude |-> 600000 + r3 * 400] ELSE c1
      c3 == IF IsBurn(logs)
              THEN [type |-> EventType.BURN, magnitude |-> 500000] ELSE c2
      c4 == IF IsMint(logs)
              THEN [type |-> EventType.MINT, magnitude |-> 500000] ELSE c3
  IN c4

\* the rules of lines 106 and 111 overriding the type only: the magnitude
\* of an earlier rule stays
ClassifyKeepMagnitude(logs, r1, r2, r3) ==
  LET c0 == [type |-> EventType.TRANSACTION, magnitude |-> 300000 + r1 * 400]
      c1 == IF IsWhale(logs)
              THEN [type |-> EventType.WHALE, magnitude |-> 800000 + r2 * 200] ELSE c0
      c2 == IF IsMev(logs)
              THEN [type |-> EventType.MEV, magnitude |-> 600000 + r3 * 400] ELSE c1
      c3 == IF IsMint(logs)
              THEN [type |-> EventType.MINT, magnitude |-> c2.magnitude] ELSE c2
      c4 == IF IsBurn(logs)
              THEN [type |-> EventType.BURN, magnitude |-> c3.magnitude] ELSE c3
  IN c4

Classify(logs, r1, r2, r3) ==
  LET c0 == [type |-> EventType.TRANSACTION, magnitude |-> 300000 + r1 * 400]
      c1 == IF IsWhale(logs)
              THEN [type |-> EventType.WHALE, magnitude |-> 800000 + r2 * 200] ELSE c0
      c2 == IF IsMev(logs)
              THEN [type |-> EventType.MEV, magnitude |-> 600000 + r3 * 400] ELSE c1
      c3 == IF IsMint(logs)
              THEN [type |-> EventType.MINT, magnitude |-> 500000] ELSE c2
      c4 == IF IsBurn(logs)
              THEN [type |-> EventType.BURN, magnitude |-> 500000] ELSE c3
  IN c4

\* _handleMessage with the bookkeeping of lines 116-117 moved above the
\* guard of line 84
HandleMessageCountFirst(m, t, r1, r2, r3) ==
  LET skipped == [counted |-> FALSE, called |-> FALSE, event |-> NoEvent] IN
  IF m.kind # "json" THEN skipped
  ELSE IF m.depth < 3 THEN [counted |-> TRUE, called |-> FALSE, event |-> NoEvent]
  ELSE IF m.logs.t = "num" THEN [counted |-> TRUE, called |-> FALSE, event |-> NoEvent]
  ELSE [counted |-> TRUE, called |-> m.sig.t # "num", event |-> NoEvent]

\* ws.onmessage and _handleMessage, src/helius.js:58-63 and 83-125: what
\* the handler has done when it returns.  counted: eventCount++ and
\* lastEventMs were executed; called: this.onEvent was invoked.
\*   - JSON.parse throws on garbage: caught at line 62
\*   - a missing link of params.result.value: return at line 84
\*   - logs that is not an array: logs.some throws at line 93, caught
\*   - signature that is not a string: sig.slice throws at line 122, after
\*     lines 116-117 have run, caught
HandleMessage(m, t, r1, r2, r3) ==
  LET skipped == [counted |-> FALSE, called |-> FALSE, event |-> NoEvent] IN
  IF m.kind # "json" \/ m.depth < 3 THEN skipped
  ELSE IF m.logs.t = "num" THEN skipped
  ELSE
    LET logs == m.logs.v
        c == Classify(logs, r1, r2, r3)
    IN IF m.sig.t = "num"
         THEN [counted |-> TRUE, called |-> FALSE, event |-> NoEvent]
         ELSE [counted |-> TRUE, called |-> TRUE,
               event |-> [type |-> c.type, magnitude |-> c.magnitude,
                          sig |-> Slice8(m.sig.v), timestamp |-> t]]

\* Math.random() is called at line 97 only for a whale, at line 103 only for mev
Draws(m, line) ==
  IF m.kind = "json" /\ m.depth = 3 /\ m.logs.t = "ok"
     /\ (IF line = 97 THEN IsWhale(m.logs.v) ELSE IsMev(m.logs.v))
    THEN MagnitudeSamples ELSE {0}


VARIABLES
  apiKey,           \* this.apiKey
  ws,               \* this.ws: 0 is null, otherwise the socket's slot
  connected,        \* this.connected
  demoActive,       \* this.demoActive
  reconnectDelay,   \* this.reconnectDelay
  eventCount,       \* this.eventCount
  lastEventMs,      \* this.lastEventMs
  sock,             \* the WebSocket objects created by connect()
  demoTimers,       \* number of pending setTimeout callbacks of scheduleNext
  reconnectTimers,  \* number of pending setTimeout(() => this.connect())
  now,              \* Date.now()
  connectCalls,     \* connect() calls made by the consumer so far
  wsUnavailable,    \* whether `new WebSocket(url)` throws in this environment
  onEventCalls,     \* number of invocations of this.onEvent
  lastOp,           \* the handler that ran last, with what it observed
  msg,              \* the message that handler received (NoMsg: none); a run that
                    \* studies one feed message starts with it here
  delivered,        \* the event that handler passed to this.onEvent (NoEvent: none)
  failures,         \* close events since the latest open event, counted up to
                    \* the number after which the backoff rule stays at its cap
  disconnected,     \* the consumer has called disconnect(), and has not called
                    \* connect() since
  hashCall,         \* the latest call of hashFloat and hashInt: arguments and results
  seedArg,          \* the argument of the latest walletToParams call
  scene,            \* the object that call returned
  refArg,           \* the argument of the first walletToParams call
  refScene,         \* the object that call returned
  otherSeen,        \* a later call had another argument than the first call
  sceneCalls,       \* walletToParams calls so far
  solanaEvent,      \* the argument of the latest handleSolanaEvent call
  solanaEffect,     \* the effect that call returned
  rounding,         \* the nodes (from 0) at which the doubles of this run put the
                    \* later of two candidates first that are equally far from the
                    \* node in exact arithmetic
  params,           \* ParticleSystem: this.params
  canvas,           \* this.canvas: width and height
  particles,        \* this.particles
  time,             \* this.time
  scaledNodes,      \* this.scaledNodes
  liveEffect,       \* this.liveEffect
  flow,             \* the acceleration the force terms of update() give in this run
  updates,          \* update() calls so far
  liveEvents,       \* handleLiveEvent() calls so far
  resets,           \* _initParticles() and resize() calls after construction
  mint              \* the call of mintGenerativeNFT: where it stands, the steps it
                    \* has started, what the steps gave, what it returned

feedVars == <<apiKey, ws, connected, demoActive, reconnectDelay, eventCount, lastEventMs>>
envVars == <<sock, demoTimers, reconnectTimers, now, connectCalls, wsUnavailable>>
obsVars == <<onEventCalls, lastOp, msg, delivered, failures, disconnected>>
effectVars == <<solanaEvent, solanaEffect>>
sceneVars ==
  <<hashCall, seedArg, scene, refArg, refScene, otherSeen, sceneCalls, effectVars,
    rounding>>
systemVars ==
  <<params, canvas, particles, time, scaledNodes, liveEffect, flow, updates, liveEvents,
    resets>>
artVars == <<sceneVars, systemVars, mint>>
vars == <<feedVars, envVars, obsVars, artVars>>

\* no call of the generator's functions yet
NoHashCall == [str |-> <<>>, seed |-> 0, max |-> 0, float |-> 0, int |-> 0]
NoArg == [t |-> "none", v |-> <<>>]
NoScene == [nodeCount |-> 0]

\* mintGenerativeNFT has not been called
NoMint ==
  [pc |-> "idle", traits |-> FALSE, steps |-> <<>>, failed |-> "", imageUri |-> "",
   metadataUri |-> "", mintAddress |-> "", result |-> [kind |-> "none"]]

\* Nothing of the art engine (generative.js) has been called
EngineIdle ==
  /\ mint = NoMint
  /\ hashCall = NoHashCall
  /\ seedArg = NoArg
  /\ scene = NoScene
  /\ refArg = NoArg
  /\ refScene = NoScene
  /\ otherSeen = FALSE
  /\ sceneCalls = 0
  /\ solanaEvent = NoEvent
  /\ solanaEffect = [type |-> "none"]
  /\ params = [nodes |-> <<>>, particleCount |-> 0]
  /\ canvas = [width |-> 0, height |-> 0]
  /\ particles = <<>>
  /\ time = 0
  /\ scaledNodes = <<>>
  /\ liveEffect = [type |-> "null"]
  /\ flow = [x |-> 0, y |-> 0]
  /\ updates = 0
  /\ liveEvents = 0
  /\ resets = 0

\* and rounding leaves candidates that are equally far from a node in the
\* order of their indices
ArtIdle ==
  /\ EngineIdle
  /\ rounding = {}

NoOp == [op |-> "constructor", arg |-> 0]

\* constructor, src/helius.js:24-33
Init ==
  /\ apiKey \in ApiKeys
  /\ ws = 0
  /\ connected = FALSE
  /\ demoActive = FALSE
  /\ reconnectDelay = InitialDelay
  /\ eventCount = 0
  /\ lastEventMs = 0
  /\ sock = [s \in Sockets |-> "none"]
  /\ demoTimers = 0
  /\ reconnectTimers = 0
  /\ now = 0
  /\ connectCalls = 0
  /\ wsUnavailable \in BOOLEAN
  /\ onEventCalls = 0
  /\ lastOp = NoOp
  /\ msg = NoMsg
  /\ delivered = NoEvent
  /\ failures = 0
  /\ disconnected = FALSE
  /\ ArtIdle

Op(name, arg) == [op |-> name, arg |-> arg]

\* One task of the event loop runs to completion: the browser dispatches
\* error and close of a failed connection in the same task, so nothing
\* else runs between the two handlers.
TaskIdle == \A s \in Sockets : sock[s] # "errored"

\* WebSocket.close(): a socket still connecting is failed, an open one
\* starts the closing handshake, a closing or closed one is left alone.
CloseCall(sk, w) ==
  IF w = 0 THEN sk
  ELSE [sk EXCEPT ![w] = IF @ = "connecting" THEN "failing"
                         ELSE IF @ = "open" THEN "closing" ELSE @]

\* The slot of the object that `new WebSocket` returns; a slot whose socket
\* is closed holds an object that no callback will run for again.
FreeSlot == CHOOSE s \in Sockets :
  /\ sock[s] \in {"none", "closed"}
  /\ \A t \in Sockets : sock[t] \in {"none", "closed"} => s <= t

\* _startDemoMode without the double-start guard
StartDemoModeUnguarded ==
  /\ demoActive' = TRUE
  /\ demoTimers' = demoTimers + 1

\* _startDemoMode, src/helius.js:127-167 (the loop's body is DemoTick)
StartDemoMode ==
  IF demoActive
    THEN UNCHANGED <<demoActive, demoTimers>>
    ELSE /\ demoActive' = TRUE
         /\ demoTimers' = demoTimers + 1

\* connect(), src/helius.js:35-81
ConnectBody ==
  IF apiKey \in {"", "demo"} \/ wsUnavailable
    THEN /\ StartDemoMode
         /\ UNCHANGED <<ws, sock>>
    ELSE /\ ws' = FreeSlot
         /\ sock' = [sock EXCEPT ![FreeSlot] = "connecting"]
         /\ UNCHANGED <<demoActive, demoTimers>>

\* the consumer calls connect()
Connect ==
  /\ TaskIdle
  /\ connectCalls < MaxConnectCalls
  /\ connectCalls' = connectCalls + 1
  /\ disconnected' = FALSE
  /\ ConnectBody
  /\ msg' = NoMsg
  /\ delivered' = NoEvent
  /\ lastOp' = Op(IF apiKey \in {"", "demo"} THEN "connect-demo"
                  ELSE IF wsUnavailable THEN "connect-catch" ELSE "connect", 0)
  /\ UNCHANGED <<apiKey, connected, reconnectDelay, eventCount, lastEventMs,
                 reconnectTimers, now, wsUnavailable, onEventCalls, failures>>
  /\ UNCHANGED artVars

\* a timer set by onclose fires: () => this.connect(), src/helius.js:68
ReconnectFire ==
  /\ TaskIdle
  /\ reconnectTimers > 0
  /\ reconnectTimers' = reconnectTimers - 1
  /\ ConnectBody
  /\ msg' = NoMsg
  /\ delivered' = NoEvent
  /\ lastOp' = Op("reconnect", 0)
  /\ UNCHANGED <<apiKey, connected, reconnectDelay, eventCount, lastEventMs,
                 now, connectCalls, wsUnavailable, onEventCalls, failures, disconnected>>
  /\ UNCHANGED artVars

\* ws.onopen, src/helius.js:45-56.  The subscription is sent on this.ws;
\* send() changes no field of the feed.
OnOpen(s) ==
  /\ TaskIdle
  /\ sock[s] = "connecting"
  /\ sock' = [sock EXCEPT ![s] = "open"]
  /\ connected' = TRUE
  /\ failures' = 0
  /\ UNCHANGED disconnected
  /\ msg' = NoMsg
  /\ delivered' = NoEvent
  /\ lastOp' = Op("onopen", s)
  /\ UNCHANGED <<apiKey, ws, demoActive, reconnectDelay, eventCount, lastEventMs,
                 demoTimers, reconnectTimers, now, connectCalls, wsUnavailable, onEventCalls>>
  /\ UNCHANGED artVars

\* an onerror that schedules a reconnect attempt of its own
OnErrorReconnects(s) ==
  /\ TaskIdle
  /\ sock[s] \in {"connecting", "open", "failing", "closing"}
  /\ sock' = CloseCall([sock EXCEPT ![s] = "errored"], ws)
  /\ StartDemoMode
  /\ reconnectTimers' = reconnectTimers + 1
  /\ msg' = NoMsg
  /\ delivered' = NoEvent
  /\ lastOp' = Op("onerror", s)
  /\ UNCHANGED <<apiKey, ws, connected, reconnectDelay, eventCount, lastEventMs,
                 now, connectCalls, wsUnavailable, onEventCalls, failures, disconnected>>
  /\ UNCHANGED artVars

\* ws.onerror, src/helius.js:72-76.  The connection of socket s has failed:
\* its readyState is CLOSED when the event is dispatched.
OnError(s) ==
  /\ TaskIdle
  /\ sock[s] \in {"connecting", "open", "failing", "closing"}
  /\ sock' = CloseCall([sock EXCEPT ![s] = "errored"], ws)
  /\ StartDemoMode
  /\ msg' = NoMsg
  /\ delivered' = NoEvent
  /\ lastOp' = Op("onerror", s)
  /\ UNCHANGED <<apiKey, ws, connected, reconnectDelay, eventCount, lastEventMs,
                 reconnectTimers, now, connectCalls, wsUnavailable, onEventCalls,
                 failures, disconnected>>
  /\ UNCHANGED artVars

\* The number of multiplications by 1.5 that take the initial delay to the cap
RECURSIVE StepsFrom(_)
StepsFrom(d) == IF d * 3 >= MaxDelay * 2 THEN 1 ELSE 1 + StepsFrom((d * 3) \div 2)
StepsToCap == StepsFrom(InitialDelay)

\* reconnectDelay * 1.5 capped, src/helius.js:69
NextDelay(d) == Min((d * 3) \div 2, MaxDelay)

\* How a close event came about: after an error event, after close() was
\* called on the open socket, or unexpectedly (the server closed it).
CloseOp(st) ==
  IF st = "errored" THEN "onclose-after-error"
  ELSE IF st = "closing" THEN "onclose-requested" ELSE "onclose"
CloseOps == {"onclose", "onclose-requested", "onclose-after-error"}

\* onclose that multiplies the delay before it schedules the reconnect
OnCloseDelayFirst(s) ==
  /\ sock[s] \in {"open", "closing", "errored"}
  /\ sock[s] # "errored" => TaskIdle
  /\ sock' = [sock EXCEPT ![s] = "closed"]
  /\ connected' = FALSE
  /\ reconnectDelay' = NextDelay(reconnectDelay)
  /\ reconnectTimers' = reconnectTimers + 1
  /\ failures' = Min(failures + 1, StepsToCap + 1)
  /\ UNCHANGED disconnected
  /\ msg' = NoMsg
  /\ delivered' = NoEvent
  /\ lastOp' = Op(CloseOp(sock[s]), reconnectDelay')
  /\ UNCHANGED <<apiKey, ws, demoActive, eventCount, lastEventMs, demoTimers,
                 now, connectCalls, wsUnavailable, onEventCalls>>
  /\ UNCHANGED artVars

\* ws.onclose, src/helius.js:65-70: after an error, after the closing
\* handshake, or when the server closes an open connection.  The argument
\* of lastOp is the delay handed to setTimeout.
OnClose(s) ==
  /\ sock[s] \in {"open", "closing", "errored"}
  /\ sock[s] # "errored" => TaskIdle
  /\ sock' = [sock EXCEPT ![s] = "closed"]
  /\ connected' = FALSE
  /\ reconnectTimers' = reconnectTimers + 1
  /\ reconnectDelay' = NextDelay(reconnectDelay)
  /\ failures' = Min(failures + 1, StepsToCap + 1)
  /\ UNCHANGED disconnected
  /\ msg' = NoMsg
  /\ delivered' = NoEvent
  /\ lastOp' = Op(CloseOp(sock[s]), reconnectDelay)
  /\ UNCHANGED <<apiKey, ws, demoActive, eventCount, lastEventMs, demoTimers,
                 now, connectCalls, wsUnavailable, onEventCalls>>
  /\ UNCHANGED artVars

\* disconnect(), src/helius.js:169-172
Disconnect ==
  /\ TaskIdle
  /\ sock' = CloseCall(sock, ws)
  /\ connected' = FALSE
  /\ disconnected' = TRUE
  /\ msg' = NoMsg
  /\ delivered' = NoEvent
  /\ lastOp' = Op("disconnect", 0)
  /\ UNCHANGED <<apiKey, ws, demoActive, reconnectDelay, eventCount, lastEventMs,
                 demoTimers, reconnectTimers, now, connectCalls, wsUnavailable,
                 onEventCalls, failures>>
  /\ UNCHANGED artVars

\* getStats(), src/helius.js:174-181: the object it returns
getStats ==
  [connected |-> connected, eventCount |-> eventCount,
   lastEventMs |-> lastEventMs, msSinceLastEvent |-> now - lastEventMs]

\* the consumer calls getStats(); the argument of lastOp is the
\* eventCount it is told
GetStats ==
  /\ TaskIdle
  /\ msg' = NoMsg
  /\ delivered' = NoEvent
  /\ lastOp' = Op("getStats", getStats.eventCount)
  /\ UNCHANGED <<feedVars, envVars, onEventCalls, failures, disconnected>>
  /\ UNCHANGED artVars

\* time passes
AdvanceClock ==
  /\ TaskIdle
  /\ now < MaxTime
  /\ now' = now + 1
  /\ msg' = NoMsg
  /\ delivered' = NoEvent
  /\ lastOp' = Op("clock", 0)
  /\ UNCHANGED <<feedVars, sock, demoTimers, reconnectTimers, connectCalls,
                 wsUnavailable, onEventCalls, failures, disconnected>>
  /\ UNCHANGED artVars

\* ws.onmessage, src/helius.js:58-63, with _handleMessage, src/helius.js:83-125
OnMessage(s, m) ==
  /\ TaskIdle
  /\ sock[s] = "open"
  /\ \E r1 \in MagnitudeSamples, r2 \in Draws(m, 97), r3 \in Draws(m, 103) :
       LET out == HandleMessage(m, now, r1, r2, r3) IN
       /\ out.counted => eventCount < MaxEvents
       /\ eventCount' = IF out.counted THEN eventCount + 1 ELSE eventCount
       /\ lastEventMs' = IF out.counted THEN now ELSE lastEventMs
       /\ onEventCalls' = IF out.called THEN onEventCalls + 1 ELSE onEventCalls
       /\ delivered' = out.event
  /\ msg' = m
  /\ lastOp' = Op("onmessage", s)
  /\ UNCHANGED <<apiKey, ws, connected, demoActive, reconnectDelay, sock, demoTimers,
                 reconnectTimers, now, connectCalls, wsUnavailable, failures, disconnected>>
  /\ UNCHANGED artVars

\* The event the simulated loop synthesizes, src/helius.js:135-153
DemoSig == <<"d", "e", "m", "o">>
DemoEvent(rand, r, t) ==
  LET c == IF rand < 5 THEN [type |-> EventType.WHALE, magnitude |-> 850000 + r * 150]
           ELSE IF rand < 25 THEN [type |-> EventType.MEV, magnitude |-> 600000 + r * 300]
           ELSE IF rand < 40 THEN [type |-> EventType.MINT, magnitude |-> 500000]
           ELSE IF rand < 50 THEN [type |-> EventType.BURN, magnitude |-> 450000]
           ELSE [type |-> EventType.TRANSACTION, magnitude |-> 200000 + r * 500]
  IN [type |-> c.type, magnitude |-> c.magnitude, sig |-> DemoSig, timestamp |-> t]

\* The loop as it was before the demoActive flag: a tick that finds the
\* feed connected falls silent without marking the loop stopped.
DemoTickNoStop ==
  /\ TaskIdle
  /\ demoTimers > 0
  /\ IF ~connected /\ demoActive
       THEN /\ eventCount < MaxEvents
            /\ \E rand \in RandomSamples, r \in MagnitudeSamples :
                 delivered' = DemoEvent(rand, r, now)
            /\ eventCount' = eventCount + 1
            /\ lastEventMs' = now
            /\ onEventCalls' = onEventCalls + 1
            /\ demoTimers' = (demoTimers - 1) + 1
            /\ UNCHANGED demoActive
       ELSE /\ demoTimers' = demoTimers - 1
            /\ delivered' = NoEvent
            /\ UNCHANGED <<demoActive, eventCount, lastEventMs, onEventCalls>>
  /\ msg' = NoMsg
  /\ lastOp' = Op("tick", IF connected THEN 1 ELSE 0)
  /\ UNCHANGED <<apiKey, ws, connected, reconnectDelay, sock, reconnectTimers, now,
                 connectCalls, wsUnavailable, failures, disconnected>>
  /\ UNCHANGED artVars

\* The callback of scheduleNext's setTimeout, src/helius.js:133-162
DemoTick ==
  /\ TaskIdle
  /\ demoTimers > 0
  /\ IF ~connected /\ demoActive
       THEN /\ eventCount < MaxEvents
            /\ \E rand \in RandomSamples, r \in MagnitudeSamples :
                 delivered' = DemoEvent(rand, r, now)
            /\ eventCount' = eventCount + 1
            /\ lastEventMs' = now
            /\ onEventCalls' = onEventCalls + 1
            /\ demoTimers' = (demoTimers - 1) + 1
            /\ UNCHANGED demoActive
       ELSE /\ demoActive' = IF connected THEN FALSE ELSE demoActive
            /\ demoTimers' = demoTimers - 1
            /\ delivered' = NoEvent
            /\ UNCHANGED <<eventCount, lastEventMs, onEventCalls>>
  /\ msg' = NoMsg
  /\ lastOp' = Op("tick", IF connected THEN 1 ELSE 0)
  /\ UNCHANGED <<apiKey, ws, connected, reconnectDelay, sock, reconnectTimers, now,
                 connectCalls, wsUnavailable, failures, disconnected>>
  /\ UNCHANGED artVars

Next ==
  \/ Connect
  \/ ReconnectFire
  \/ \E s \in Sockets : OnOpen(s)
  \/ \E s \in Sockets : OnError(s)
  \/ \E s \in Sockets : OnClose(s)
  \/ \E s \in Sockets, m \in FeedMessages : OnMessage(s, m)
  \/ DemoTick
  \/ Disconnect
  \/ GetStats
  \/ AdvanceClock

Spec == Init /\ [][Next]_vars

\* ------------------------------------------------- the connection life cycle
\* The handlers that read or write the connection state (ws, connected,
\* demoActive, reconnectDelay, the sockets and the timers).  The handlers
\* left out (onmessage, getStats, the clock) neither read nor write it.
NextConnection ==
  \/ Connect
  \/ ReconnectFire
  \/ \E s \in Sockets : OnOpen(s)
  \/ \E s \in Sockets : OnError(s)
  \/ \E s \in Sockets : OnClose(s)
  \/ DemoTick
  \/ Disconnect

SpecConnection == Init /\ [][NextConnection]_vars

\* ------------------------------------------------------ the event bookkeeping
\* The handlers that read or write eventCount and lastEventMs, with the
\* handlers that take a feed to the states in which they run.
NextEvents ==
  \/ Connect
  \/ \E s \in Sockets : OnOpen(s)
  \/ \E s \in Sockets : OnError(s)
  \/ \E s \in Sockets : OnClose(s)
  \/ \E s \in Sockets, m \in FeedMessages : OnMessage(s, m)
  \/ DemoTick
  \/ GetStats
  \/ AdvanceClock

SpecEvents == Init /\ [][NextEvents]_vars

\* ------------------------------------------------- one connect() call
\* A feed constructed with a credential
InitCredential ==
  /\ Init
  /\ apiKey \notin {"", "demo"}

\* The consumer calls connect() once and nothing else; the callbacks of the
\* sockets and of the timers run in any order.
NextSingleConnect ==
  \/ (connectCalls = 0 /\ Connect)
  \/ ReconnectFire
  \/ \E s \in Sockets : OnOpen(s)
  \/ \E s \in Sockets : OnError(s)
  \/ \E s \in Sockets : OnClose(s)
  \/ DemoTick

SpecSingleConnect == InitCredential /\ [][NextSingleConnect]_vars

\* The consumer calls connect() once, and disconnect() at any time
NextDisconnect ==
  \/ NextSingleConnect
  \/ Disconnect

SpecDisconnect == InitCredential /\ [][NextDisconnect]_vars

\* ------------------------------------------------- one feed message at a time
\* A connected feed receives the message under study.
InitClassify ==
  /\ apiKey = "key"
  /\ ws = 1
  /\ connected = TRUE
  /\ demoActive = FALSE
  /\ reconnectDelay = InitialDelay
  /\ eventCount = 0
  /\ lastEventMs = 0
  /\ sock = [s \in Sockets |-> IF s = 1 THEN "open" ELSE "none"]
  /\ demoTimers = 0
  /\ reconnectTimers = 0
  /\ now \in 0..MaxTime
  /\ connectCalls = 1
  /\ wsUnavailable = FALSE
  /\ onEventCalls = 0
  /\ lastOp = Op("onopen", 1)
  /\ msg \in Messages
  /\ delivered = NoEvent
  /\ failures = 0
  /\ disconnected = FALSE
  /\ ArtIdle

NextClassify == \E s \in Sockets : OnMessage(s, msg)

SpecClassify == InitClassify /\ [][NextClassify]_vars

\* ------------------------------------------------------ the scene generator
\* A JavaScript string is the sequence of its UTF-16 code units.
\* 'default_kira_seed', src/helius.js:392
DefaultSeed ==
  <<100, 101, 102, 97, 117, 108, 116, 95, 107, 105, 114, 97, 95, 115, 101, 101, 100>>
\* 'conn', src/helius.js:423
ConnStr == <<99, 111, 110, 110>>

\* String(i) for the loop indices 0..99, as `a + i` appends it
Digits(i) == IF i < 10 THEN <<48 + i>> ELSE <<48 + (i \div 10), 48 + (i % 10)>>

MinInt32 == -2147483647 - 1
HashRange == 100000

\* Math.imul(31, h) + c | 0 for a 32-bit h and a code unit c: the sum wrapped
\* to a signed 32-bit integer, computed on 16-bit halves
HashStep(h, c) ==
  LET low == 31 * (h % 65536) + c
      high == (31 * (h \div 65536) + (low \div 65536)) % 65536
  IN (IF high >= 32768 THEN high - 65536 ELSE high) * 65536 + (low % 65536)

\* the values of the accumulator h, which | 0 keeps a signed 32-bit integer
Int32 == MinInt32..2147483647

\* the loop of hashFloat, src/helius.js:351-354, over the code units lo..hi
\* of str and from the accumulator h: the first half of the range, then the
\* second half from where the first one ended
RECURSIVE HashLoop(_, _, _, _)
HashLoop(str, lo, hi, h) ==
  IF lo > hi \/ h \notin Int32 THEN h
  ELSE IF lo = hi THEN HashStep(h, str[lo])
  ELSE HashLoop(str, ((lo + hi) \div 2) + 1, hi, HashLoop(str, lo, (lo + hi) \div 2, h))

\* Math.abs(h) % 100000; Math.abs returns a double, so that the absolute
\* value of -2^31 is 2^31
AbsMod(h) ==
  IF h >= 0 THEN h % HashRange ELSE (HashRange - (h % HashRange)) % HashRange

\* hashFloat without Math.abs: the remainder has the sign of h
hashFloatNoAbs(str, seed) ==
  LET h == HashLoop(str, 1, Len(str), seed) IN
  IF h >= 0 THEN h % HashRange ELSE 0 - ((HashRange - (h % HashRange)) % HashRange)

\* hashFloat whose accumulator is not reset between the calls of
\* walletToParams: it starts from what the previous call left
hashFloatStale(str, seed) == AbsMod(HashLoop(str, 1, Len(str), seed + scene.nodeCount))

\* hashFloat, src/helius.js:350-356: the result in units of 1/100000
hashFloat(str, seed) == AbsMod(HashLoop(str, 1, Len(str), seed))

\* hashInt, src/helius.js:358-360
hashInt(str, seed, max) == (hashFloat(str, seed) * max) \div HashRange

\* palettes, src/helius.js:400-405
Palettes ==
  << [primary |-> "#00e5ff", secondary |-> "#7c6af7", accent |-> "#ff6b2b"],
     [primary |-> "#00ff88", secondary |-> "#0066ff", accent |-> "#ff0088"],
     [primary |-> "#ffcc00", secondary |-> "#ff4400", accent |-> "#00ccff"],
     [primary |-> "#cc00ff", secondary |-> "#00ffcc", accent |-> "#ff6600"] >>

\* The square of a difference of two coordinates, as the pair <<h, l>> that
\* stands for h * 65536 + l
Square(d) ==
  LET a == IF d < 0 THEN 0 - d ELSE d
      q == a \div 256
      r == a % 256
  IN <<q * q, 2 * q * r * 256 + r * r>>

\* dx * dx + dy * dy, normalised so that l < 65536
SumSquares(dx, dy) ==
  LET s == Square(dx)
      t == Square(dy)
  IN <<s[1] + t[1] + ((s[2] + t[2]) \div 65536), (s[2] + t[2]) % 65536>>

BigLess(p, q) == p[1] < q[1] \/ (p[1] = q[1] /\ p[2] < q[2])

\* The node of index i (from 0), src/helius.js:411-418: x and y in units of
\* 1/100000, mass in millionths, speed in units of 10^-9, phase in
\* 1/100000 of a full turn
NodeOf(a, i) ==
  [x |-> hashFloat(a \o Digits(i), 10 + i),
   y |-> hashFloat(a \o Digits(i), 20 + i),
   mass |-> 300000 + hashFloat(a \o Digits(i), 30 + i) * 7,
   speed |-> 200000 + hashFloat(a \o Digits(i), 40 + i) * 8,
   phase |-> hashFloat(a \o Digits(i), 50 + i),
   connections |-> <<>>]

\* The coordinates are doubles next to multiples of 1/100000, and
\* Math.hypot rounds again. Two candidates whose distances to a node differ
\* in exact arithmetic keep their order (the squares differ by 10^-10 at
\* least). Two that are equally far in exact arithmetic get doubles that are
\* equal, or that put either of them first; only the outcome that puts the
\* candidate of the higher index first changes the sorted order. The sets
\* of nodes where that happens: none, and those of the seeds 'kira_fkv',
\* 'default_kira_seed' and 'kira_otu' in IEEE 754 arithmetic with a
\* correctly rounded Math.hypot.
Roundings == {{}, {4}, {21}, {2, 4}}

\* the first node (from 1) at the position of node j: nodes at one position
\* have the same doubles, whatever the rounding
Twin(nodes, j) ==
  CHOOSE k \in 1..j :
    /\ nodes[k].x = nodes[j].x /\ nodes[k].y = nodes[j].y
    /\ \A m \in 1..(k - 1) : nodes[m].x # nodes[j].x \/ nodes[m].y # nodes[j].y

\* nodes.map(...) of line 424 for node i (from 0): the distance from node i
\* to every node, as the sequence of dx^2 + dy^2 (Math.hypot is increasing
\* in it), followed by what rounding adds to it
Distances(nodes, i) ==
  [j \in 1..Len(nodes) |->
     SumSquares(nodes[j].x - nodes[i + 1].x, nodes[j].y - nodes[i + 1].y)
       \o <<IF i \in rounding THEN 0 - Twin(nodes, j) ELSE 0>>] \o <<>>

\* a.dist - b.dist < 0 of line 427, on two entries of Distances
Nearer(p, q) == BigLess(p, q) \/ (p[1] = q[1] /\ p[2] = q[2] /\ p[3] < q[3])

\* a sort that puts the later of two candidates of equal distance first
RECURSIVE FirstUnstable(_, _, _, _)
FirstUnstable(dist, taken, lo, hi) ==
  IF lo > hi THEN -1
  ELSE IF lo = hi THEN (IF lo \in taken THEN -1 ELSE lo)
  ELSE LET left == FirstUnstable(dist, taken, lo, (lo + hi) \div 2)
           right == FirstUnstable(dist, taken, ((lo + hi) \div 2) + 1, hi)
       IN IF left < 0 THEN right
          ELSE IF right < 0 THEN left
          ELSE IF Nearer(dist[left + 1], dist[right + 1]) THEN left
          ELSE right

\* The index (from 0) that comes first in the sorted candidates among the
\* indices lo..hi once those in `taken` are left out, or -1 if none is left:
\* the smallest distance, and the lowest index among equal distances
\* (Array.prototype.sort is stable)
RECURSIVE First(_, _, _, _)
First(dist, taken, lo, hi) ==
  IF lo > hi THEN -1
  ELSE IF lo = hi THEN (IF lo \in taken THEN -1 ELSE lo)
  ELSE LET left == First(dist, taken, lo, (lo + hi) \div 2)
           right == First(dist, taken, ((lo + hi) \div 2) + 1, hi)
       IN IF left < 0 THEN right
          ELSE IF right < 0 THEN left
          ELSE IF Nearer(dist[right + 1], dist[left + 1]) THEN right
          ELSE left

\* candidates.slice(0, count).map(c => c.j), src/helius.js:428
RECURSIVE Slice(_, _, _)
Slice(dist, taken, count) ==
  LET j == First(dist, taken, 0, Len(dist) - 1) IN
  IF count = 0 \/ j < 0 THEN <<>>
  ELSE <<j>> \o Slice(dist, taken \cup {j}, count - 1)

\* connections without the filter c.j !== i of line 427
ConnectionsOfAll(a, nodes, i) ==
  Slice(Distances(nodes, i), {}, 2 + hashInt(a \o ConnStr \o Digits(i), i, 3))

\* connections of node i (from 0), src/helius.js:423-428
ConnectionsOf(a, nodes, i) ==
  Slice(Distances(nodes, i), {i}, 2 + hashInt(a \o ConnStr \o Digits(i), i, 3))

\* the default substituted for a missing address only
SeedOfMissing(address) == IF address.t # "ok" THEN DefaultSeed ELSE address.v

\* line 392: the default seed for a missing, empty or short address
SeedOf(address) ==
  IF address.t # "ok" \/ Len(address.v) < 8 THEN DefaultSeed ELSE address.v

\* walletToParams, src/helius.js:391-438
walletToParams(address) ==
  LET a == SeedOf(address)
      nodeCount == 12 + hashInt(a, 1, 36)
      paletteIdx == hashInt(a, 2, 4)
      nodes == [i \in 1..nodeCount |-> NodeOf(a, i - 1)] \o <<>>
  IN [nodeCount |-> nodeCount,
      palette |-> Palettes[paletteIdx + 1],
      nodes |-> [i \in 1..nodeCount |->
                   [nodes[i] EXCEPT !.connections = ConnectionsOf(a, nodes, i - 1)]] \o <<>>,
      particleCount |-> 40 + hashInt(a, 3, 80),
      turbulence |-> 300000 + hashFloat(a, 4) * 7,
      address |-> a,
      liveEnabled |-> FALSE]

\* ------------------------------------------------- calls of the generator
\* The feed as its constructor leaves it, for the runs in which only the
\* art engine is called
FeedIdle ==
  /\ apiKey = "demo"
  /\ ws = 0
  /\ connected = FALSE
  /\ demoActive = FALSE
  /\ reconnectDelay = InitialDelay
  /\ eventCount = 0
  /\ lastEventMs = 0
  /\ sock = [s \in Sockets |-> "none"]
  /\ demoTimers = 0
  /\ reconnectTimers = 0
  /\ connectCalls = 0
  /\ wsUnavailable = FALSE
  /\ onEventCalls = 0
  /\ msg = NoMsg
  /\ delivered = NoEvent
  /\ failures = 0
  /\ disconnected = FALSE

feedSide ==
  <<feedVars, sock, demoTimers, reconnectTimers, connectCalls, wsUnavailable,
    onEventCalls, msg, delivered, failures, disconnected>>

\* Arguments of hashFloat and hashInt: strings (the empty one, 'a', 'kira',
\* the default seed), salts (small ones, the ends of the 32-bit range, and
\* the salt from which 'a' takes the accumulator to -2^31), and values of
\* max for which the floor of the double product is the exact floor
HashStrings == {<<>>, <<97>>, <<107, 105, 114, 97>>, DefaultSeed}
HashSalts == {0, 1, -1, 7, 2147483647, MinInt32, -2008936319}
HashMaxes == {1, 3, 4, 36, 80, 1000}

\* hashInt(str, salt, max) is called, and so hashFloat(str, salt)
CallHash(str, salt, max) ==
  /\ hashCall' = [str |-> str, seed |-> salt, max |-> max,
                  float |-> hashFloat(str, salt), int |-> hashInt(str, salt, max)]
  /\ lastOp' = Op("hashInt", 0)
  /\ UNCHANGED <<feedSide, mint, now, seedArg, scene, refArg, refScene, otherSeen, sceneCalls,
                 effectVars, rounding, systemVars>>

InitHash ==
  /\ FeedIdle
  /\ ArtIdle
  /\ now = 0
  /\ lastOp = NoOp

NextHash ==
  \E str \in HashStrings, salt \in HashSalts, max \in HashMaxes : CallHash(str, salt, max)

SpecHash == InitHash /\ [][NextHash]_vars

\* Arguments of walletToParams: a missing address, short strings ('' and
\* '1234567'), the default seed itself, and addresses of 8 and more
\* characters: '12345678', 'kira_fkv', 'kira_cod', 'kira_nkk', 'kira_otu'
\* (the samples with the smallest and largest nodeCount and particleCount)
\* and a base58 wallet address
Addresses ==
  { Absent,
    Value(<<>>),
    Value(<<49, 50, 51, 52, 53, 54, 55>>),
    Value(DefaultSeed),
    Value(<<49, 50, 51, 52, 53, 54, 55, 56>>),
    Value(<<107, 105, 114, 97, 95, 102, 107, 118>>),
    Value(<<107, 105, 114, 97, 95, 99, 111, 100>>),
    Value(<<107, 105, 114, 97, 95, 110, 107, 107>>),
    Value(<<107, 105, 114, 97, 95, 111, 116, 117>>),
    Value(<<55, 120, 75, 88, 116, 103, 50, 67, 87, 56, 55, 100, 57, 55, 84, 88, 74, 83,
            68, 112, 98, 68, 53, 106, 66, 107, 104, 101, 84, 113, 65, 56, 51, 84, 90, 82,
            117, 74, 111, 115, 103, 65, 115, 85>>) }

\* the consumer calls walletToParams(address)
WalletToParams(address) ==
  /\ sceneCalls < MaxSceneCalls
  /\ sceneCalls' = sceneCalls + 1
  /\ seedArg' = address
  /\ scene' = walletToParams(address)
  /\ refArg' = IF sceneCalls = 0 THEN address ELSE refArg
  /\ refScene' = IF sceneCalls = 0 THEN scene' ELSE refScene
  /\ otherSeen' = (otherSeen \/ (sceneCalls > 0 /\ address # refArg))
  /\ hashCall' = NoHashCall
  /\ lastOp' = Op("walletToParams", 0)
  /\ UNCHANGED <<feedSide, mint, now, effectVars, rounding, systemVars>>

NextScene == \E address \in Addresses : WalletToParams(address)

SpecScene == InitHash /\ [][NextScene]_vars

\* Seeds whose scenes have candidates that are equally far from a node in
\* exact arithmetic ('default_kira_seed', 'kira_fkv', 'kira_nkk',
\* 'kira_otu'), and '12345678'
ConnectionSeeds ==
  { Value(DefaultSeed),
    Value(<<49, 50, 51, 52, 53, 54, 55, 56>>),
    Value(<<107, 105, 114, 97, 95, 102, 107, 118>>),
    Value(<<107, 105, 114, 97, 95, 110, 107, 107>>),
    Value(<<107, 105, 114, 97, 95, 111, 116, 117>>) }

\* no call yet, in a run with any of the roundings
InitConnections ==
  /\ FeedIdle
  /\ EngineIdle
  /\ rounding \in Roundings
  /\ now = 0
  /\ lastOp = NoOp

NextConnections == \E address \in ConnectionSeeds : WalletToParams(address)

SpecConnections == InitConnections /\ [][NextConnections]_vars

\* -------------------------------------------------------- the particle system
\* Lengths are in thousandths of a pixel (positions, and velocities per
\* update), life in thousandths, magnitudes in millionths, Math.random()
\* in thousandths, this.time in update steps of 0.008.
PixelUnit == 1000
TrailCap == 18
NoHome == -1

\* n / d rounded toward zero
Trunc(n, d) == IF n >= 0 THEN n \div d ELSE 0 - ((0 - n) \div d)

\* handleSolanaEvent, src/helius.js:363-388: the effect object built from
\* a feed event (duration in ms, size in hundredths)
\* the table of lines 368-374, size in hundredths
EffectTable ==
  [tx |-> [color |-> "#00ffff", size |-> 30, duration |-> 800],
   whale |-> [color |-> "#ff00ff", size |-> 120, duration |-> 2000],
   mev |-> [color |-> "#ffff00", size |-> 80, duration |-> 1200],
   mint |-> [color |-> "#00ff00", size |-> 60, duration |-> 1500],
   burn |-> [color |-> "#ff0000", size |-> 70, duration |-> 1400]]

\* handleSolanaEvent without line 377: the effect is the copy of the table
\* entry, which has no type
handleSolanaEventNoType(event) ==
  LET entry == IF event.type \in DOMAIN EffectTable
                 THEN EffectTable[event.type] ELSE EffectTable.tx
  IN [color |-> entry.color, size |-> entry.size, duration |-> entry.duration,
      type |-> "undefined", magnitude |-> event.magnitude,
      timestamp |-> event.timestamp, sig |-> event.sig]

\* handleSolanaEvent, src/helius.js:363-388
handleSolanaEvent(event) ==
  LET entry == IF event.type \in DOMAIN EffectTable
                 THEN EffectTable[event.type] ELSE EffectTable.tx
  IN [color |-> entry.color, size |-> entry.size, duration |-> entry.duration,
      type |-> event.type, magnitude |-> event.magnitude,
      timestamp |-> event.timestamp, sig |-> event.sig]

\* this.liveEffect = null
NoEffect ==
  [color |-> "", size |-> 0, duration |-> 0, type |-> "null", magnitude |-> 0,
   timestamp |-> 0, sig |-> <<>>, x |-> 0, y |-> 0, start |-> 0]

\* node.x * this.canvas.width: a normalized coordinate (in 1/100000) times
\* a canvas dimension in pixels
Scale(coord, pixels) == Trunc(coord * pixels, 100000 \div PixelUnit)

\* _scaleNode, src/helius.js:499-505
ScaleNode(node, cv) ==
  [x |-> node.x, y |-> node.y, sx |-> Scale(node.x, cv.width), sy |-> Scale(node.y, cv.height)]

\* params.nodes.map(n => this._scaleNode(n)), src/helius.js:509 and 528
ScaleNodes(pr, cv) == [i \in 1..Len(pr.nodes) |-> ScaleNode(pr.nodes[i], cv)]

\* The particle _initParticles pushes for index i (from 0), src/helius.js:513-523;
\* dr holds the six values Math.random() returns
InitParticle(i, sn, dr) ==
  LET home == sn[(i % Len(sn)) + 1] IN
  [x |-> home.sx + (dr.x - 500) * 60,
   y |-> home.sy + (dr.y - 500) * 60,
   vx |-> Trunc(dr.vx - 500, 2),
   vy |-> Trunc(dr.vy - 500, 2),
   life |-> dr.life,
   maxLife |-> 600 + Trunc(dr.maxLife * 4, 10),
   homeNode |-> i % Len(sn),
   trail |-> <<>>]

\* the trail without the eviction of line 557
PushTrailUnbounded(trail, pos) == Append(trail, pos)

\* p.trail.push({x, y}); if (p.trail.length > 18) p.trail.shift(), src/helius.js:556-557
PushTrail(trail, pos) ==
  LET pushed == Append(trail, pos) IN
  IF Len(pushed) > TrailCap THEN Tail(pushed) ELSE pushed

\* The body of update's loop for one particle whose home node exists,
\* src/helius.js:538-568.  acc is the acceleration of lines 544-546 (the
\* pull toward the home node and the flow field), dr the four values
\* Math.random() returns when the particle respawns.
UpdateParticle(p, home, cv, acc, dr) ==
  LET vx == Trunc((p.vx + acc.x) * 96, 100)
      vy == Trunc((p.vy + acc.y) * 96, 100)
      x == p.x + vx
      y == p.y + vy
      life == p.life + 4
  IN IF life > p.maxLife \/ x < 0 \/ x > cv.width * PixelUnit
        \/ y < 0 \/ y > cv.height * PixelUnit
       THEN [p EXCEPT !.x = home.sx + (dr.x - 500) * 80,
                      !.y = home.sy + (dr.y - 500) * 80,
                      !.vx = Trunc((dr.vx - 500) * 4, 10),
                      !.vy = Trunc((dr.vy - 500) * 4, 10),
                      !.life = 0,
                      !.trail = <<>>]
       ELSE [p EXCEPT !.x = x, !.y = y, !.vx = vx, !.vy = vy, !.life = life,
                      !.trail = PushTrail(p.trail, [x |-> x, y |-> y])]

\* this.scaledNodes[p.homeNode] is an object
HasHome(p, sn) == p.homeNode \in 0..(Len(sn) - 1)

\* The particles (from 1) update's loop reaches: all of them, or those
\* before the first one without a home node, at which line 539 throws
Reached(ps, sn) ==
  {k \in 1..Len(ps) : \A j \in 1..k : HasHome(ps[j], sn)}

\* A number of square pixels in the units of SumSquares
Big(px2) ==
  LET unit == PixelUnit * PixelUnit
      low == px2 * (unit % 65536)
  IN <<px2 * (unit \div 65536) + (low \div 65536), low % 65536>>

WhaleRadius == 200
BurnThreshold == 4000

\* the pull with dist <= 200 in place of dist < 200
PullInclusive(p, ox, oy, magnitude) ==
  LET dx == ox - p.x
      dy == oy - p.y
  IN IF ~BigLess(Big(WhaleRadius * WhaleRadius), SumSquares(dx, dy))
       THEN [p EXCEPT !.vx = @ + Trunc(dx * 5 * (magnitude \div 1000), 10000000),
                      !.vy = @ + Trunc(dy * 5 * (magnitude \div 1000), 10000000)]
       ELSE p

\* whale, src/helius.js:469-477: the pull on one particle toward (ox, oy)
Pull(p, ox, oy, magnitude) ==
  LET dx == ox - p.x
      dy == oy - p.y
  IN IF BigLess(SumSquares(dx, dy), Big(WhaleRadius * WhaleRadius))
       THEN [p EXCEPT !.vx = @ + Trunc(dx * 5 * (magnitude \div 1000), 10000000),
                      !.vy = @ + Trunc(dy * 5 * (magnitude \div 1000), 10000000)]
       ELSE p

\* a minted particle scattered around the node as _initParticles scatters them
MintedNearNode(ox, oy, dr) ==
  [x |-> ox + (dr.x - 500) * 60, y |-> oy + (dr.y - 500) * 60,
   vx |-> (dr.vx - 500) * 2, vy |-> (dr.vy - 500) * 2,
   life |-> 1000 * 1000, maxLife |-> 1000 * 1000,
   homeNode |-> NoHome,
   trail |-> <<>>]

\* mint, src/helius.js:480-488: the particle pushed; it has no homeNode
Minted(ox, oy, dr) ==
  [x |-> ox, y |-> oy,
   vx |-> (dr.vx - 500) * 2, vy |-> (dr.vy - 500) * 2,
   life |-> 1000 * 1000, maxLife |-> 1000 * 1000,
   homeNode |-> NoHome,
   trail |-> <<>>]

\* the filter with >= in place of >
OutsideOrOn(p, ox, oy) == ~BigLess(SumSquares(ox - p.x, oy - p.y), Big(BurnThreshold))

\* burn, src/helius.js:491-495: the filter's test, dx * dx + dy * dy > 4000
Outside(p, ox, oy) == BigLess(Big(BurnThreshold), SumSquares(ox - p.x, oy - p.y))

\* Values of Math.random(), in thousandths, for the draws of one call:
\* position, velocity, life and maxLife
RandomDraws ==
  { [x |-> 0, y |-> 0, vx |-> 0, vy |-> 999, life |-> 0, maxLife |-> 999],
    [x |-> 999, y |-> 500, vx |-> 500, vy |-> 500, life |-> 999, maxLife |-> 0] }

\* Scenes small enough to follow every particle: nodes as walletToParams
\* builds them (those fields the particle system reads), and particleCount
SceneTwo ==
  [nodes |-> << [x |-> 25000, y |-> 25000], [x |-> 47500, y |-> 37500] >>,
   particleCount |-> 3]

SceneOne == [nodes |-> << [x |-> 50000, y |-> 50000] >>, particleCount |-> 2]

Canvases == {[width |-> 400, height |-> 400], [width |-> 400, height |-> 1040]}

\* The acceleration that lines 539-546 give a particle (the pull toward the
\* home node, at most 0.04, and the flow field, at most 0.02 on each axis):
\* they depend on sin, cos and hypot, and a run keeps them at one value
Flows == {[x |-> 0, y |-> 0], [x |-> 60, y |-> -20]}

\* The displacement sin(...) * 18 and cos(...) * 18 of lines 573-574, sampled
\* as a function of this.time
DriftAt(t) == IF t % 2 = 1 THEN [x |-> 0, y |-> 18000] ELSE [x |-> -18000, y |-> 0]

\* The events the feed delivers, one of each type
Events ==
  { [type |-> EventType.TRANSACTION, magnitude |-> 300000, sig |-> DemoSig, timestamp |-> 0],
    [type |-> EventType.WHALE, magnitude |-> 800000, sig |-> DemoSig, timestamp |-> 0],
    [type |-> EventType.MEV, magnitude |-> 600000, sig |-> DemoSig, timestamp |-> 0],
    [type |-> EventType.MINT, magnitude |-> 500000, sig |-> DemoSig, timestamp |-> 0],
    [type |-> EventType.BURN, magnitude |-> 500000, sig |-> DemoSig, timestamp |-> 0] }

\* _initParticles, src/helius.js:507-525
InitParticlesBody(dr) ==
  LET sn == ScaleNodes(params, canvas) IN
  /\ scaledNodes' = sn
  /\ particles' = [k \in 1..params.particleCount |-> InitParticle(k - 1, sn, dr)]

\* new ParticleSystem(canvas, params), src/helius.js:442-451
Construct(scenes, canvases, flows) ==
  /\ FeedIdle
  /\ hashCall = NoHashCall
  /\ seedArg = NoArg
  /\ scene = NoScene
  /\ refArg = NoArg
  /\ refScene = NoScene
  /\ otherSeen = FALSE
  /\ sceneCalls = 0
  /\ solanaEvent = NoEvent
  /\ solanaEffect = [type |-> "none"]
  /\ rounding = {}
  /\ mint = NoMint
  /\ now = 0
  /\ lastOp = NoOp
  /\ params \in scenes
  /\ canvas \in canvases
  /\ flow \in flows
  /\ time = 0
  /\ liveEffect = NoEffect
  /\ updates = 0
  /\ liveEvents = 0
  /\ resets = 0
  /\ scaledNodes = ScaleNodes(params, canvas)
  /\ \E dr \in RandomDraws :
       particles = [k \in 1..params.particleCount |->
                      InitParticle(k - 1, ScaleNodes(params, canvas), dr)]

InitParticles == Construct({SceneTwo}, Canvases, {[x |-> 60, y |-> -20]})

\* the consumer calls _initParticles() again
Reinit ==
  /\ \E dr \in RandomDraws : InitParticlesBody(dr)
  /\ resets' = resets + 1
  /\ lastOp' = Op("init", 0)
  /\ UNCHANGED <<feedSide, mint, sceneVars, now, params, canvas, time, liveEffect, flow,
                 updates, liveEvents>>

\* the canvas gets another size and the consumer calls resize(), src/helius.js:527-529
Resize(cv) ==
  /\ canvas' = cv
  /\ scaledNodes' = ScaleNodes(params, cv)
  /\ resets' = resets + 1
  /\ lastOp' = Op("resize", 0)
  /\ UNCHANGED <<feedSide, mint, sceneVars, now, params, particles, time, liveEffect, flow,
                 updates, liveEvents>>

\* the effect stored only when none is active: an effect that arrives while
\* the previous one is still being drawn is not stored
InstalledIfIdle(effect, node) ==
  IF liveEffect # NoEffect /\ now - liveEffect.start < liveEffect.duration
    THEN liveEffect
    ELSE [color |-> effect.color, size |-> effect.size, type |-> effect.type,
          magnitude |-> effect.magnitude, timestamp |-> effect.timestamp,
          sig |-> effect.sig,
          x |-> node.x, y |-> node.y, start |-> now,
          duration |-> IF effect.duration = 0 THEN 1000 ELSE effect.duration]

\* the object assigned to this.liveEffect, src/helius.js:458-465
Installed(effect, node) ==
  [color |-> effect.color, size |-> effect.size, type |-> effect.type,
   magnitude |-> effect.magnitude, timestamp |-> effect.timestamp, sig |-> effect.sig,
   x |-> node.x, y |-> node.y, start |-> now,
   duration |-> IF effect.duration = 0 THEN 1000 ELSE effect.duration]

\* the branches with the pull as the branch of every type but mint and burn
AffectedByDefault(ps, effect, ox, oy, dr) ==
  LET Keep(p) == Outside(p, ox, oy) IN
  IF effect.type = "mint" THEN Append(ps, Minted(ox, oy, dr))
  ELSE IF effect.type = "burn" THEN SelectSeq(ps, Keep)
  ELSE [k \in 1..Len(ps) |-> Pull(ps[k], ox, oy, effect.magnitude)]

\* the branches on effect.type, src/helius.js:467-496: what the event makes
\* of the particles ps, (ox, oy) being the position of the chosen node
Affected(ps, effect, ox, oy, dr) ==
  LET Keep(p) == Outside(p, ox, oy) IN
  IF effect.type = "whale"
    THEN [k \in 1..Len(ps) |-> Pull(ps[k], ox, oy, effect.magnitude)]
  ELSE IF effect.type = "mint" THEN Append(ps, Minted(ox, oy, dr))
  ELSE IF effect.type = "burn" THEN SelectSeq(ps, Keep)
  ELSE ps

\* handleLiveEvent(effect), src/helius.js:453-497; idx is the node that
\* Math.random() picks at line 455, dr the draws of lines 483-484
HandleLiveEvent(effect, idx, dr) ==
  LET node == params.nodes[idx + 1]
      ox == Scale(node.x, canvas.width)
      oy == Scale(node.y, canvas.height)
  IN
  /\ liveEffect' = Installed(effect, node)
  /\ particles' = Affected(particles, effect, ox, oy, dr)
  /\ liveEvents' = liveEvents + 1
  /\ lastOp' = Op("handleLiveEvent", idx)
  /\ UNCHANGED <<feedSide, mint, sceneVars, now, params, canvas, time, scaledNodes, flow, updates,
                 resets>>

\* update(), src/helius.js:531-576.  The argument of lastOp is 1 when the
\* call ended in the TypeError of line 539 (home is undefined).
Update ==
  LET reached == Reached(particles, scaledNodes)
      threw == reached # 1..Len(particles)
  IN
  /\ time' = time + 1
  /\ \E dr \in RandomDraws :
       particles' =
         [k \in 1..Len(particles) |->
            IF k \in reached
              THEN UpdateParticle(particles[k], scaledNodes[particles[k].homeNode + 1],
                                  canvas, flow, dr)
              ELSE particles[k]]
  /\ IF threw
       THEN UNCHANGED scaledNodes
       ELSE scaledNodes' =
              [i \in 1..Len(scaledNodes) |->
                 [scaledNodes[i] EXCEPT
                    !.sx = Scale(scaledNodes[i].x, canvas.width) + DriftAt(time').x,
                    !.sy = Scale(scaledNodes[i].y, canvas.height) + DriftAt(time').y]]
  /\ updates' = updates + 1
  /\ lastOp' = Op("update", IF threw THEN 1 ELSE 0)
  /\ UNCHANGED <<feedSide, mint, sceneVars, now, params, canvas, liveEffect, flow, liveEvents,
                 resets>>

\* the test of line 617 with <= in place of <
EffectActiveInclusive ==
  liveEffect # NoEffect /\ now - liveEffect.start <= liveEffect.duration

\* draw(), src/helius.js:578-658: it paints and changes no field.  The
\* argument of lastOp is 1 when the block of lines 617-636 (the ring of the
\* live effect) was drawn.
EffectActive ==
  liveEffect # NoEffect /\ now - liveEffect.start < liveEffect.duration

Draw ==
  /\ lastOp' = Op("draw", IF EffectActive THEN 1 ELSE 0)
  /\ UNCHANGED <<feedSide, mint, sceneVars, now, params, canvas, particles, time, scaledNodes,
                 liveEffect, flow, updates, liveEvents, resets>>

\* Date.now() moves on to a later instant
Instants == {0, 1, 799, 800, 999, 1000, 1199, 1200, 1399, 1400, 1499, 1500, 1999, 2000, 2001}

Elapse(t) ==
  /\ t > now
  /\ now' = t
  /\ lastOp' = Op("clock", 0)
  /\ UNCHANGED <<feedSide, mint, sceneVars, params, canvas, particles, time, scaledNodes,
                 liveEffect, flow, updates, liveEvents, resets>>

\* The particle set under every call of the particle system
NextParticles ==
  \/ resets < MaxResets /\ Reinit
  \/ resets < MaxResets /\ \E cv \in Canvases : Resize(cv)
  \/ updates < MaxUpdates /\ Update
  \/ /\ liveEvents < MaxLiveEvents
     /\ \E e \in Events, idx \in 0..(Len(params.nodes) - 1), dr \in RandomDraws :
          HandleLiveEvent(handleSolanaEvent(e), idx, dr)

SpecParticles == InitParticles /\ [][NextParticles]_vars

\* The live effect under the clock and draw()
InitEffect == Construct({SceneOne}, {[width |-> 400, height |-> 400]}, {[x |-> 0, y |-> 0]})

NextEffect ==
  \/ /\ liveEvents < MaxLiveEvents
     /\ \E e \in Events, idx \in 0..(Len(params.nodes) - 1), dr \in RandomDraws :
          HandleLiveEvent(handleSolanaEvent(e), idx, dr)
  \/ \E t \in Instants : Elapse(t)
  \/ Draw

SpecEffect == InitEffect /\ [][NextEffect]_vars

\* The trails under runs of update() long enough to fill them
NextTrail ==
  \/ updates < MaxTrailUpdates /\ Update
  \/ /\ liveEvents < MaxLiveEvents
     /\ \E e \in Events, idx \in 0..(Len(params.nodes) - 1), dr \in RandomDraws :
          HandleLiveEvent(handleSolanaEvent(e), idx, dr)

SpecTrail == InitEffect /\ [][NextTrail]_vars

\* Arguments of handleSolanaEvent: events as the feed builds them, of the five
\* types and of a type the table does not have
SolanaEvents ==
  { [type |-> ty, magnitude |-> m, sig |-> sg, timestamp |-> t] :
      ty \in {"tx", "whale", "mev", "mint", "burn", "stake"},
      m \in {0, 500000, 999999},
      sg \in {<<>>, DemoSig, <<"5", "x">>},
      t \in {0, 1, 2000} }

\* the consumer passes an event to handleSolanaEvent
HandleSolanaEvent(event) ==
  /\ solanaEvent' = event
  /\ solanaEffect' = handleSolanaEvent(event)
  /\ lastOp' = Op("handleSolanaEvent", 0)
  /\ UNCHANGED <<feedSide, mint, now, hashCall, seedArg, scene, refArg, refScene, otherSeen,
                 sceneCalls, rounding, systemVars>>

NextSolanaEvent == \E e \in SolanaEvents : HandleSolanaEvent(e)

SpecSolanaEvent == InitHash /\ [][NextSolanaEvent]_vars

\* Effects that follow one another, under the clock
InitReplace ==
  Construct({SceneTwo}, {[width |-> 400, height |-> 400]}, {[x |-> 60, y |-> -20]})

NextReplace ==
  \/ /\ liveEvents < MaxLiveEvents + 1
     /\ \E e \in Events, idx \in 0..(Len(params.nodes) - 1), dr \in RandomDraws :
          HandleLiveEvent(handleSolanaEvent(e), idx, dr)
  \/ \E t \in {799, 800, 2000} : Elapse(t)

SpecReplace == InitReplace /\ [][NextReplace]_vars

\* ------------------------------------------------------------------ minting
\* mintGenerativeNFT, src/mint.js:28-91.  The record `mint` holds where the
\* call stands (pc: the step it awaits, "returned" once its promise is
\* fulfilled, "rejected" once its promise is rejected), whether params.traits
\* is an object, the steps started, the step that failed, and the results.

\* What the consumer passes: no argument, a parameter object, a parameter
\* object without traits
MintArgs == {"none", "params", "params-without-traits"}

\* What a failing step throws or rejects with: an Error, a value without a
\* message property, undefined
Reasons == {"Error", "string", "undefined"}

\* How an awaited step ends: fulfilled with a value, or failed
Outcomes ==
  {[ok |-> TRUE, v |-> v] : v \in {"a", "b", "c"}} \cup {[ok |-> FALSE, v |-> r] : r \in Reasons}

\* what generateSigner(umi) returns, line 61
Signers == {"k1", "k2"}

\* The promise is rejected with the TypeError of an access to a property of
\* undefined
Rejected(m) ==
  [m EXCEPT !.pc = "rejected", !.result = [kind |-> "rejected", reason |-> "TypeError"]]

\* The catch block, lines 84-90: error.message is read from whatever was
\* thrown, and reading it from undefined throws inside the catch block
Caught(m, reason) ==
  IF reason = "undefined"
    THEN Rejected([m EXCEPT !.failed = m.pc])
    ELSE [m EXCEPT !.pc = "returned", !.failed = m.pc,
                   !.result = [kind |-> "value", success |-> FALSE,
                               error |-> IF reason = "Error" THEN "message" ELSE "undefined"]]

\* The call up to its first await, lines 28-31: the parameter is
\* destructured before the try block is entered
MintCalled(arg) ==
  IF arg = "none" THEN Rejected(NoMint)
  ELSE [NoMint EXCEPT !.pc = "image", !.traits = (arg = "params"), !.steps = <<"image">>]

\* umi.uploader.upload has settled, lines 31-55: Object.entries(traits) of
\* line 39 throws a TypeError when traits is undefined
ImageSettled(m, o) ==
  IF ~o.ok THEN Caught(m, o.v)
  ELSE IF ~m.traits THEN Caught([m EXCEPT !.imageUri = o.v], "Error")
  ELSE [m EXCEPT !.imageUri = o.v, !.pc = "metadata", !.steps = Append(@, "metadata")]

\* umi.uploader.uploadJson has settled, lines 55-76
MetadataSettled(m, o, signer) ==
  IF ~o.ok THEN Caught(m, o.v)
  ELSE [m EXCEPT !.metadataUri = o.v, !.mintAddress = signer, !.pc = "create",
                 !.steps = Append(@, "create")]

\* createNft(...).sendAndConfirm(umi) has settled, lines 63-82
CreateSettled(m, o) ==
  IF ~o.ok THEN Caught(m, o.v)
  ELSE [m EXCEPT !.pc = "returned",
                 !.result = [kind |-> "value", success |-> TRUE, signature |-> o.v,
                             mintAddress |-> m.mintAddress,
                             metadataUri |-> m.metadataUri, imageUri |-> m.imageUri]]

\* the consumer calls mintGenerativeNFT
MintGenerativeNFT(arg) ==
  /\ mint.pc = "idle"
  /\ mint' = MintCalled(arg)
  /\ lastOp' = Op("mintGenerativeNFT", 0)
  /\ UNCHANGED <<feedSide, now, sceneVars, systemVars>>

\* the continuation after `await umi.uploader.upload([imageData])`
ImageUploaded(o) ==
  /\ mint.pc = "image"
  /\ mint' = ImageSettled(mint, o)
  /\ lastOp' = Op("image", 0)
  /\ UNCHANGED <<feedSide, now, sceneVars, systemVars>>

\* the continuation after `await umi.uploader.uploadJson(metadata)`
MetadataUploaded(o, signer) ==
  /\ mint.pc = "metadata"
  /\ mint' = MetadataSettled(mint, o, signer)
  /\ lastOp' = Op("metadata", 0)
  /\ UNCHANGED <<feedSide, now, sceneVars, systemVars>>

\* the continuation after `await createNft(...).sendAndConfirm(umi)`
NftCreated(o) ==
  /\ mint.pc = "create"
  /\ mint' = CreateSettled(mint, o)
  /\ lastOp' = Op("create", 0)
  /\ UNCHANGED <<feedSide, now, sceneVars, systemVars>>

NextMint ==
  \/ \E arg \in MintArgs : MintGenerativeNFT(arg)
  \/ \E o \in Outcomes : ImageUploaded(o)
  \/ \E o \in Outcomes, signer \in Signers : MetadataUploaded(o, signer)
  \/ \E o \in Outcomes : NftCreated(o)

SpecMint == InitHash /\ [][NextMint]_vars

\* ===================================================================== claims

\* C1: once a simulated loop has been started and the feed is connected, the
\* next pending simulated tick delivers nothing, does not reschedule itself
\* and marks the loop inactive (demoActive = false); no simulated event is
\* delivered while the feed is connected.
C1_TickStopsWhenConnected ==
  [][(lastOp'.op = "tick" /\ connected) =>
       /\ delivered' = NoEvent
       /\ onEventCalls' = onEventCalls
       /\ eventCount' = eventCount
       /\ demoActive' = FALSE
       /\ demoTimers' = 0]_vars

\* a tick of a started loop has found the feed connected, after the loop
\* had delivered an event
C1_Witness ==
  /\ lastOp = Op("tick", 1)
  /\ connected
  /\ ~demoActive
  /\ demoTimers = 0
  /\ onEventCalls > 0

\* C2: at most one simulated-loop timer is pending at any time, under every
\* interleaving of connect(), socket callbacks, disconnect(), reconnect
\* timers and simulated ticks.
C2_AtMostOneDemoTimer == demoTimers <= 1

\* _startDemoMode has been called a second time while the loop was running
C2_Witness ==
  /\ lastOp.op = "connect-demo"
  /\ connectCalls = 2
  /\ demoActive
  /\ demoTimers = 1

\* C3: after any transport-level failure (an unexpected socket close, a
\* socket error with its close, an exception when opening the socket), once
\* the failure has been handled a simulated loop is running.
C3_StopgapAfterFailure ==
  lastOp.op \in {"onclose", "onclose-after-error", "connect-catch"} =>
    (demoActive /\ demoTimers > 0)

RECURSIVE Pow(_, _)
Pow(b, e) == IF e = 0 THEN 1 ELSE b * Pow(b, e - 1)

\* min(2000 * 1.5^(k-1), 30000), for the k the failure counter can hold
BackoffDelay(k) == Min((InitialDelay * Pow(3, k - 1)) \div Pow(2, k - 1), MaxDelay)

\* C5: reconnectDelay starts at 2000 ms, the k-th consecutive failed
\* connection schedules its reconnect after min(2000 * 1.5^(k-1), 30000) ms,
\* and 2000 <= reconnectDelay <= 30000 in every reachable state.
C5_BackoffSchedule ==
  /\ lastOp = NoOp => reconnectDelay = InitialDelay
  /\ InitialDelay <= reconnectDelay /\ reconnectDelay <= MaxDelay
  /\ lastOp.op \in CloseOps =>
       lastOp.arg = BackoffDelay(failures)

\* C6: when the socket's open event fires, reconnectDelay is reset to its
\* initial value of 2000 ms.
C6_OpenResetsDelay == lastOp.op = "onopen" => reconnectDelay = InitialDelay

\* C7: the first simulated tick after disconnect() delivers nothing and
\* does not reschedule itself.
C7_TickAfterDisconnectExits ==
  [][(lastOp.op = "disconnect" /\ lastOp'.op = "tick") =>
       (delivered' = NoEvent /\ demoTimers' = 0)]_vars

\* C8: after any sequence of live messages and simulated ticks, eventCount
\* equals the number of invocations of onEvent.
C8_CountMatchesDeliveries == eventCount = onEventCalls

\* C9: a feed message that cannot be parsed or lacks one of params, result,
\* value is skipped: onEvent is not called, eventCount and lastEventMs are
\* unchanged, and so is the state of the connection.
C9_MalformedSkipped ==
  [][(lastOp'.op = "onmessage" /\ msg' \in Malformed) =>
       /\ delivered' = NoEvent
       /\ UNCHANGED <<onEventCalls, eventCount, lastEventMs>>
       /\ UNCHANGED <<ws, connected, demoActive, reconnectDelay, sock,
                      demoTimers, reconnectTimers>>]_vars

\* a malformed message has been handled by a feed that had counted an event
C9_Witness ==
  /\ lastOp.op = "onmessage"
  /\ msg \in Malformed
  /\ connected
  /\ eventCount > 0

\* "some line matches", for the rules in the claim's words
AnyLine(logs, pats) ==
  \E k \in 1..Len(logs) : \E pat \in pats : Includes(logs[k], pat)

\* burn, else mint, else mev, else whale, else tx
TypeByPriority(logs) ==
  IF AnyLine(logs, {PatBurn}) THEN "burn"
  ELSE IF AnyLine(logs, {PatMintTo, PatInitMint}) THEN "mint"
  ELSE IF AnyLine(logs, {PatSwap, PatArb}) THEN "mev"
  ELSE IF AnyLine(logs, {PatTransfer}) /\ AnyLine(logs, {PatLarge}) THEN "whale"
  ELSE "tx"

\* C10: the type of a classified message is that of the last matching rule
\* in the order tx < whale < mev < mint < burn; mint with burn gives burn,
\* and a transfer without the large-amount marker gives tx.
C10_LastMatchingRuleWins ==
  (lastOp.op = "onmessage" /\ delivered # NoEvent) =>
    LET logs == msg.logs.v IN
    /\ delivered.type = TypeByPriority(logs)
    /\ (AnyLine(logs, {PatMintTo, PatInitMint}) /\ AnyLine(logs, {PatBurn}))
         => delivered.type = "burn"
    /\ logs = << <<"Program log", ": ", "Instruction", ": ", "Transfer">> >>
         => delivered.type = "tx"

\* a message with a mint line and a burn line has been classified
C10_Witness ==
  /\ lastOp.op = "onmessage"
  /\ delivered # NoEvent
  /\ AnyLine(msg.logs.v, {PatMintTo, PatInitMint})
  /\ AnyLine(msg.logs.v, {PatBurn})
  /\ delivered.type = "burn"

\* C11: the magnitude of a classified live event is determined by its final
\* type only, also when earlier rules matched: tx in [0.3, 0.7), whale in
\* [0.8, 1.0), mev in [0.6, 1.0), mint exactly 0.5, burn exactly 0.5; a
\* message matching both whale and mint has magnitude 0.5.
C11_MagnitudeByFinalType ==
  (lastOp.op = "onmessage" /\ delivered # NoEvent) =>
    LET m == delivered.magnitude
        ty == delivered.type
    IN /\ ty = "tx" => (300000 <= m /\ m < 700000)
       /\ ty = "whale" => (800000 <= m /\ m < 1000000)
       /\ ty = "mev" => (600000 <= m /\ m < 1000000)
       /\ ty = "mint" => m = 500000
       /\ ty = "burn" => m = 500000
       /\ (IsWhale(msg.logs.v) /\ ty = "mint") => m = 500000

\* a message matching the whale rule and the mint rule has been classified
C11_Witness ==
  /\ lastOp.op = "onmessage"
  /\ delivered # NoEvent
  /\ IsWhale(msg.logs.v)
  /\ IsMint(msg.logs.v)
  /\ delivered.type = "mint"
  /\ delivered.magnitude = 500000

Repeated(q) == {i \in 1..Len(q) : \E j \in 1..(i - 1) : q[j] = q[i]}

\* C13: for every seed, walletToParams returns 12 <= nodeCount <= 48,
\* nodes.length = nodeCount, 40 <= particleCount <= 120, 0.3 <= turbulence
\* <= 1.0, and every node's connections list has 2 to 4 entries, all of
\* them indices of other nodes, none repeated.
C13_SceneRanges ==
  scene # NoScene =>
    /\ 12 <= scene.nodeCount /\ scene.nodeCount <= 48
    /\ Len(scene.nodes) = scene.nodeCount
    /\ 40 <= scene.particleCount /\ scene.particleCount <= 120
    /\ 300000 <= scene.turbulence /\ scene.turbulence <= 1000000
    /\ \A i \in 1..Len(scene.nodes) :
         LET c == scene.nodes[i].connections IN
         /\ 2 <= Len(c) /\ Len(c) <= 4
         /\ \A k \in 1..Len(c) : c[k] \in 0..(scene.nodeCount - 1) /\ c[k] # i - 1
         /\ Repeated(c) = {}

\* the scene of a seed with the largest node count the hash of a sample
\* gives, with nodes of 2 and of 4 connections
C13_Witness ==
  /\ scene # NoScene
  /\ scene.nodeCount = 47
  /\ \E i \in 1..Len(scene.nodes) : Len(scene.nodes[i].connections) = 2
  /\ \E i \in 1..Len(scene.nodes) : Len(scene.nodes[i].connections) = 4

\* walletToParams('default_kira_seed')
DefaultScene == walletToParams(Value(DefaultSeed))

\* C14: every seed of fewer than 8 characters, the empty string and a
\* missing seed included, yields exactly the result of the default seed
\* literal.
C14_ShortSeedsDefault ==
  (seedArg # NoArg /\ (seedArg.t = "undef" \/ Len(seedArg.v) < 8)) =>
    scene = DefaultScene

\* a seed of 7 characters has been passed
C14_Witness ==
  /\ seedArg.t = "ok"
  /\ Len(seedArg.v) = 7
  /\ scene.address = DefaultSeed
  /\ scene.nodeCount = 43

\* C15: for every string and integer salt hashFloat is in [0,1), and for
\* every max > 0, 0 <= hashInt < max, also when the wrapped 32-bit
\* accumulator is negative or is -2^31.
C15_HashRange ==
  hashCall # NoHashCall =>
    /\ 0 <= hashCall.float /\ hashCall.float < HashRange
    /\ 0 <= hashCall.int /\ hashCall.int < hashCall.max

\* the hash of a non-empty string has been taken whose accumulator ends
\* at -2^31
C15_Witness ==
  /\ hashCall # NoHashCall
  /\ Len(hashCall.str) > 0
  /\ HashLoop(hashCall.str, 1, Len(hashCall.str), hashCall.seed) = MinInt32
  /\ hashCall.float = 83648

\* C16: after any sequence of init, resize, update and handleLiveEvent calls
\* every particle has a homeNode that is an index into scaledNodes, so that
\* the update() after a mint event completes normally.  (The particle that
\* a mint event pushes has no homeNode, and the next update() ends in the
\* TypeError of line 539 before it has moved that particle or any later one.)
C16_ValidHomeNode ==
  /\ \A k \in 1..Len(particles) : HasHome(particles[k], scaledNodes)
  /\ lastOp # Op("update", 1)

\* C17: a burn event with epicentre N removes every particle whose squared
\* distance in pixels to N's position (N.x * canvas.width, N.y * canvas.height)
\* is at most 4000, and keeps every other particle, unchanged and in order.
C17_Near(p, ox, oy) ==
  LET d == SumSquares(ox - p.x, oy - p.y)
  IN d = Big(BurnThreshold) \/ BigLess(d, Big(BurnThreshold))

C17_Kept(ps, ox, oy) ==
  LET Far(p) == ~C17_Near(p, ox, oy) IN SelectSeq(ps, Far)

C17_BurnRemovesNear ==
  [][(lastOp'.op = "handleLiveEvent" /\ liveEffect'.type = "burn")
       => particles' = C17_Kept(particles, Scale(liveEffect'.x, canvas.width),
                                Scale(liveEffect'.y, canvas.height))]_vars

\* A burn has just removed some particles and kept others.
C17_Witness ==
  /\ lastOp.op = "handleLiveEvent"
  /\ liveEffect.type = "burn"
  /\ updates = 0
  /\ liveEvents = 1
  /\ Len(particles) > 0
  /\ Len(particles) < params.particleCount

\* C18: a mint event adds exactly one particle, at the position of the
\* chosen node (node.x * canvas.width, node.y * canvas.height) and with an
\* empty trail, after the particles there were, which stay as they are.
C18_MintAddsOne ==
  [][(lastOp'.op = "handleLiveEvent" /\ liveEffect'.type = "mint")
       => /\ Len(particles') = Len(particles) + 1
          /\ SubSeq(particles', 1, Len(particles)) = particles
          /\ particles'[Len(particles')].x = Scale(liveEffect'.x, canvas.width)
          /\ particles'[Len(particles')].y = Scale(liveEffect'.y, canvas.height)
          /\ particles'[Len(particles')].trail = <<>>]_vars

\* A mint at the second node has just added a fourth particle to the three
\* of the scene.
C18_Witness ==
  /\ lastOp = Op("handleLiveEvent", 1)
  /\ liveEffect.type = "mint"
  /\ resets = 0
  /\ Len(particles) = params.particleCount + 1
  /\ particles[Len(particles)].x = Scale(params.nodes[2].x, canvas.width)
  /\ particles[Len(particles)].trail = <<>>

\* C19: the live effect is active (draw() paints it) exactly while
\* now - start < duration, the duration being 800 for tx, 2000 for whale,
\* 1200 for mev, 1500 for mint and 1400 for burn; once that interval has
\* elapsed the effect is not active again unless a new effect is installed.
C19_Duration == [tx |-> 800, whale |-> 2000, mev |-> 1200, mint |-> 1500, burn |-> 1400]

C19_Active ==
  /\ liveEffect.type \in DOMAIN C19_Duration
  /\ now - liveEffect.start < C19_Duration[liveEffect.type]

C19_ActiveWhileWithinDuration ==
  /\ [](lastOp.op = "draw" => (lastOp.arg = 1 <=> C19_Active))
  /\ [][(liveEffect' = liveEffect /\ ~C19_Active) => ~C19_Active']_vars

\* draw() runs exactly 800 ms after a tx effect was installed, and does not
\* paint it.
C19_Witness ==
  /\ lastOp = Op("draw", 0)
  /\ liveEffect.type = "tx"
  /\ now - liveEffect.start = 800

\* C20: after any number of update() calls interleaved with handleLiveEvent
\* calls no particle's trail is longer than 18 positions, and a full trail
\* loses its oldest position when update() appends the newest.
C20_TrailBounded ==
  /\ [](\A k \in 1..Len(particles) : Len(particles[k].trail) <= 18)
  /\ [][lastOp'.op = "update"
         => \A k \in 1..Len(particles) :
              LET old == particles[k].trail
                  new == particles'[k].trail
                  pos == [x |-> particles'[k].x, y |-> particles'[k].y]
              IN \/ new = <<>>
                 \/ new = old /\ ~HasHome(particles[k], scaledNodes)
                 \/ new = Append(IF Len(old) = 18 THEN Tail(old) ELSE old, pos)]_vars

\* After 19 updates a particle that never respawned has a trail of 18
\* positions: its first position has been evicted.
C20_Witness ==
  /\ updates = 19
  /\ \E k \in 1..Len(particles) :
       /\ particles[k].life = 19 * 4
       /\ Len(particles[k].trail) = 18

\* C21: for every event, handleSolanaEvent returns an effect whose type is
\* the event's type, whose magnitude, timestamp and sig are the event's, and
\* whose color, size and duration are those of the table entry of that type
\* (of the tx entry for a type the table does not have).
C21_Table ==
  [tx |-> <<"#00ffff", 30, 800>>, whale |-> <<"#ff00ff", 120, 2000>>,
   mev |-> <<"#ffff00", 80, 1200>>, mint |-> <<"#00ff00", 60, 1500>>,
   burn |-> <<"#ff0000", 70, 1400>>]

C21_EffectOfEvent ==
  lastOp.op = "handleSolanaEvent"
    => /\ solanaEffect.type = solanaEvent.type
       /\ solanaEffect.magnitude = solanaEvent.magnitude
       /\ solanaEffect.timestamp = solanaEvent.timestamp
       /\ solanaEffect.sig = solanaEvent.sig
       /\ <<solanaEffect.color, solanaEffect.size, solanaEffect.duration>> =
            C21_Table[IF solanaEvent.type \in DOMAIN C21_Table
                        THEN solanaEvent.type ELSE "tx"]

\* handleSolanaEvent has returned the effect of a whale event.
C21_Witness ==
  /\ lastOp.op = "handleSolanaEvent"
  /\ solanaEvent.type = "whale"
  /\ solanaEffect.type = "whale"
  /\ solanaEffect.duration = 2000
  /\ solanaEffect.magnitude = 999999

\* C22: a whale effect changes the velocity of exactly the particles less
\* than 200 pixels from the origin node, each by (the vector from the
\* particle to the origin) * 0.0005 * magnitude; the particles at distance
\* 200 or more, every position and the number of particles stay as they are.
C22_Impulse(d, magnitude) == Trunc(d * 5 * (magnitude \div 1000), 10000000)

C22_Pulled(p, ox, oy, magnitude) ==
  IF BigLess(SumSquares(ox - p.x, oy - p.y), SumSquares(200 * PixelUnit, 0))
    THEN [p EXCEPT !.vx = p.vx + C22_Impulse(ox - p.x, magnitude),
                   !.vy = p.vy + C22_Impulse(oy - p.y, magnitude)]
    ELSE p

C22_WhalePullsNear ==
  [][(lastOp'.op = "handleLiveEvent" /\ liveEffect'.type = "whale")
       => /\ Len(particles') = Len(particles)
          /\ \A k \in 1..Len(particles) :
               particles'[k] = C22_Pulled(particles[k],
                                          Scale(liveEffect'.x, canvas.width),
                                          Scale(liveEffect'.y, canvas.height),
                                          liveEffect'.magnitude)]_vars

\* A whale at the second node has just pulled the second particle, 30 pixels
\* away on each axis, by 30 * 0.0005 * 0.8 pixels, and has left the first
\* particle, exactly 200 pixels away, as it was.
C22_Witness ==
  /\ lastOp = Op("handleLiveEvent", 1)
  /\ liveEffect.type = "whale"
  /\ updates = 0
  /\ resets = 0
  /\ Len(particles) = 3
  /\ particles[2].vx = -250 + 12
  /\ particles[1].vx = -250
  /\ SumSquares(Scale(liveEffect.x, canvas.width) - particles[1].x,
                Scale(liveEffect.y, canvas.height) - particles[1].y)
       = SumSquares(200 * PixelUnit, 0)

\* C23: a tx or mev effect mutates no physics: the particles (their number,
\* positions, velocities, life, trails) and the node positions stay as they
\* are, and only the stored effect changes.
C23_NoPhysicsMutation ==
  [][(lastOp'.op = "handleLiveEvent" /\ liveEffect'.type \in {"tx", "mev"})
       => /\ particles' = particles
          /\ scaledNodes' = scaledNodes
          /\ params' = params
          /\ canvas' = canvas
          /\ time' = time]_vars

\* A mev effect has just been stored, with a particle less than 200 pixels
\* from its node (one a whale would have pulled).
C23_Witness ==
  /\ lastOp.op = "handleLiveEvent"
  /\ liveEffect.type = "mev"
  /\ liveEffect.duration = 1200
  /\ \E k \in 1..Len(particles) :
       BigLess(SumSquares(Scale(liveEffect.x, canvas.width) - particles[k].x,
                          Scale(liveEffect.y, canvas.height) - particles[k].y),
               SumSquares(200 * PixelUnit, 0))

\* C24: one effect is stored: handleLiveEvent replaces the stored effect by
\* the one it is given, also while the previous effect is still active, and
\* applies the mutation of the new event's type (the whale's pull, the
\* mint's particle, the burn's removal) whether or not the previous effect is
\* still active.
C24_Applied(e, idx) ==
  LET node == params.nodes[idx + 1]
      ox == Scale(node.x, canvas.width)
      oy == Scale(node.y, canvas.height)
  IN /\ liveEffect' = [type |-> e.type, magnitude |-> e.magnitude, sig |-> e.sig,
                       timestamp |-> e.timestamp,
                       color |-> C21_Table[e.type][1], size |-> C21_Table[e.type][2],
                       duration |-> C21_Table[e.type][3],
                       x |-> node.x, y |-> node.y, start |-> now]
     /\ CASE e.type = "whale" ->
               particles' = [k \in 1..Len(particles) |->
                               C22_Pulled(particles[k], ox, oy, e.magnitude)]
          [] e.type = "mint" ->
               /\ Len(particles') = Len(particles) + 1
               /\ SubSeq(particles', 1, Len(particles)) = particles
               /\ particles'[Len(particles')].x = ox
               /\ particles'[Len(particles')].y = oy
          [] e.type = "burn" -> particles' = C17_Kept(particles, ox, oy)
          [] OTHER -> particles' = particles

C24_OneEffectReplaced ==
  [][lastOp'.op = "handleLiveEvent"
       => \E e \in Events : C24_Applied(e, lastOp'.arg)]_vars

\* A second event, a mint, has just been applied at an instant at which the
\* effect of the first one, a burn that removed particles, was still active
\* (no effect lasts less than 800 ms): the mint is the stored effect and its
\* particle is there.
C24_Witness ==
  /\ lastOp.op = "handleLiveEvent"
  /\ liveEvents = 2
  /\ now = 799
  /\ liveEffect.type = "mint"
  /\ liveEffect.start = 799
  /\ Len(particles) < params.particleCount
  /\ particles[Len(particles)].homeNode = NoHome

\* the squared distance in exact arithmetic between nodes j and i (from 1)
\* of the scene
C25_Dist(i, j) ==
  SumSquares(scene.nodes[j].x - scene.nodes[i].x, scene.nodes[j].y - scene.nodes[i].y)

\* nodes j and k (from 1) have the same computed distance to node i, or
\* the one of the lower index is nearer: they are equally far in exact
\* arithmetic, and they are at one position or rounding does not put the
\* later one first at node i
C25_Equidistant(i, j, k) ==
  /\ C25_Dist(i, j) = C25_Dist(i, k)
  /\ \/ (i - 1) \notin rounding
     \/ (scene.nodes[j].x = scene.nodes[k].x /\ scene.nodes[j].y = scene.nodes[k].y)

\* node j is strictly nearer to node i than node k by the computed distances
C25_StrictlyNearer(i, j, k) ==
  \/ BigLess(C25_Dist(i, j), C25_Dist(i, k))
  \/ (C25_Dist(i, j) = C25_Dist(i, k) /\ ~C25_Equidistant(i, j, k) /\ j > k)

\* node j comes before node k in the order of the other nodes of node i:
\* ascending distance, ties broken by ascending index
C25_Before(i, j, k) ==
  C25_StrictlyNearer(i, j, k) \/ (C25_Equidistant(i, j, k) /\ j < k)

\* the other nodes of node i (from 1)
C25_Others(i) == (1..Len(scene.nodes)) \ {i}

C26_TransportOpened ==
  lastOp.op = "reconnect" /\ ws # 0 /\ sock[ws] = "connecting"

\* C26: after disconnect() the transport is closed and connected is false,
\* and it remains so: as long as the consumer has not called connect()
\* again, the feed's socket is neither open nor connecting, no new
\* transport is opened and connected is false.
C26_StaysDisconnected ==
  disconnected =>
    /\ ~connected
    /\ ~C26_TransportOpened
    /\ (ws # 0 => sock[ws] \notin {"open", "connecting"})

\* the transports that are open or connecting
C27_Live == {s \in Sockets : sock[s] \in {"connecting", "open"}}

\* C27: after a single connect() call by the consumer with a credential,
\* in every interleaving of the open, error, close and reconnect-timer
\* callbacks, at most one transport is open or connecting and at most one
\* reconnect timer is pending at any time; every close event schedules
\* exactly one reconnect, also after an error event, which schedules none.
C27_SingleTransport ==
  /\ [](Cardinality(C27_Live) <= 1 /\ reconnectTimers <= 1)
  /\ [][/\ lastOp'.op \in CloseOps => reconnectTimers' = reconnectTimers + 1
        /\ lastOp'.op = "onerror" => reconnectTimers' = reconnectTimers]_vars

\* the transport created by the reconnect timer that the close event after
\* an error event scheduled is connecting, and no other timer is pending
C27_Witness ==
  /\ connectCalls = 1
  /\ lastOp.op = "reconnect"
  /\ demoActive
  /\ failures > 0
  /\ Cardinality(C27_Live) = 1
  /\ reconnectTimers = 0

\* the three steps, in their order
C28_Steps == <<"image", "metadata", "create">>

\* C28: mintGenerativeNFT never rejects; its steps run in order (image
\* upload, metadata upload, NFT creation); once a step has failed no later
\* step is started and the call returns {success: false, error}; it
\* returns {success: true} with the signature and the mint address only
\* after all three steps succeeded.
C28_NeverRejects ==
  /\ mint.pc # "rejected"
  /\ mint.steps = SubSeq(C28_Steps, 1, Len(mint.steps))
  /\ mint.failed # "" =>
       /\ mint.steps[Len(mint.steps)] = mint.failed
       /\ mint.pc = "returned"
       /\ mint.result.success = FALSE
       /\ "error" \in DOMAIN mint.result
  /\ (mint.pc = "returned" /\ mint.result.success) =>
       /\ mint.steps = C28_Steps
       /\ mint.failed = ""
       /\ mint.result.signature \in {"a", "b", "c"}
       /\ mint.result.mintAddress \in Signers

====
